---- MODULE Spec2Model ----
(***************************************************************************)
(* Model of chaincode-go/energyTrading.go: the EnergyTradingContract over  *)
(* the flat key-value world state reached through ctx.GetStub().           *)
(*                                                                         *)
(* The world state is a partial function from keys to JSON objects.  A     *)
(* JSON object is a function from the json field names to values, so that  *)
(* json.Marshal and json.Unmarshal are modelled by what they do: Marshal   *)
(* emits the tagged fields (dropping omitempty fields that are empty),     *)
(* Unmarshal fills the fields it finds and leaves the others at their zero *)
(* value.  Scores are whole points; asset amounts, prices, deposits and    *)
(* balances are in hundredths (0.25 is 25).                                *)
(*                                                                         *)
(* A GetState / PutState call of an invocation can fail: `failAt` is the   *)
(* ordinal (1 = the first store call of the invocation) of the store call  *)
(* that returns an error, 0 when none does.                                *)
(*                                                                         *)
(* Spec runs the invocations one at a time, each as one step.  SpecConc    *)
(* runs two CreateEnergyAsset invocations against the same world state,    *)
(* one store call per step, with no ordering between them.  `created`      *)
(* counts the CreateEnergyAsset invocations that returned nil, per         *)
(* tokenID.                                                                *)
(***************************************************************************)
EXTENDS Integers, FiniteSets, Sequences, TLC

VARIABLES store, last, nops, created, inflight

vars == <<store, last, nops, created, inflight>>

(* ------------------------------ bounds --------------------------------- *)

\* Number of invocations in a run.
MaxOps == 2

\* Keys of the flat namespace: the three InitLedger writes to, used as
\* tokenID, buyerAddress, sellerAddress and participantAddress alike.
Keys == {"buyer1", "seller1", "energy1"}

\* Deltas passed to UpdateReputationScore.
Deltas == {-200, -10, 40, 1000}

\* energyAmount, transactionPrice, timestamp, buyerDeposit, sellerDeposit
\* of a CreateEnergyAsset invocation; the fields differ from one another and
\* from those of the asset InitLedger seeds.
AssetInputs ==
    { [energyAmount |-> 5000, transactionPrice |-> 30,
       timestamp |-> "2025-06-01T08:00:00Z",
       buyerDeposit |-> 700, sellerDeposit |-> 900] }

\* The failing store call of an invocation of at most n store calls.
FailAt(n) == 0..n

(* ------------------------- program constants --------------------------- *)

ReputationPenaltyThreshold == 40

DefaultScore == 50

MaxScore == 100

MinScore == 0

(* ------------------------------ errors --------------------------------- *)

NoErr == "nil"
ErrStore == "store error"
ErrBuyerReputation == "buyer reputation too low"
ErrSellerReputation == "seller reputation too low"
ErrAlreadyExists == "asset already exists"
ErrNotExist == "asset does not exist"

(* --------------------------- values and JSON --------------------------- *)

\* A nil []byte / nil pointer, and the absent result of an error-only call.
Nil == [nil |-> TRUE]

EnergyAsset(tokenID, buyer, seller, in, state, bsig, ssig) ==
    [TokenID |-> tokenID, BuyerAddress |-> buyer, SellerAddress |-> seller,
     EnergyAmount |-> in.energyAmount, TransactionPrice |-> in.transactionPrice,
     Timestamp |-> in.timestamp, BuyerDeposit |-> in.buyerDeposit,
     SellerDeposit |-> in.sellerDeposit, TransactionState |-> state,
     BuyerSignature |-> bsig, SellerSignature |-> ssig]

TokenAccount(id, balance) == [AccountID |-> id, Balance |-> balance]

Reputation(p, score) == [ParticipantAddress |-> p, Score |-> score]

\* MarshalEnergyAsset with the two deposits written under each other's name.
MarshalEnergyAssetSwapped(a) ==
    [tokenID |-> a.TokenID, buyerAddress |-> a.BuyerAddress,
     sellerAddress |-> a.SellerAddress, energyAmount |-> a.EnergyAmount,
     transactionPrice |-> a.TransactionPrice, timestamp |-> a.Timestamp,
     buyerDeposit |-> a.SellerDeposit, sellerDeposit |-> a.BuyerDeposit,
     transactionState |-> a.TransactionState]

\* json.Marshal(EnergyAsset): the two signature fields are omitempty.
MarshalEnergyAsset(a) ==
    LET full == [tokenID |-> a.TokenID, buyerAddress |-> a.BuyerAddress,
                 sellerAddress |-> a.SellerAddress, energyAmount |-> a.EnergyAmount,
                 transactionPrice |-> a.TransactionPrice, timestamp |-> a.Timestamp,
                 buyerDeposit |-> a.BuyerDeposit, sellerDeposit |-> a.SellerDeposit,
                 transactionState |-> a.TransactionState,
                 buyerSignature |-> a.BuyerSignature,
                 sellerSignature |-> a.SellerSignature]
        keep == { f \in DOMAIN full :
                    /\ (f = "buyerSignature" => a.BuyerSignature # "")
                    /\ (f = "sellerSignature" => a.SellerSignature # "") }
    IN [f \in keep |-> full[f]]

MarshalTokenAccount(t) == [accountID |-> t.AccountID, balance |-> t.Balance]

MarshalReputation(r) == [participantAddress |-> r.ParticipantAddress, score |-> r.Score]

\* Field f of JSON object j, or the zero value when the object has no such field.
JSONField(j, f, zero) == IF f \in DOMAIN j THEN j[f] ELSE zero

\* json.Unmarshal into an EnergyAsset: unknown fields are ignored, missing
\* fields stay zero.  Every object the contract stores decodes without error.
UnmarshalEnergyAsset(j) ==
    [TokenID |-> JSONField(j, "tokenID", ""),
     BuyerAddress |-> JSONField(j, "buyerAddress", ""),
     SellerAddress |-> JSONField(j, "sellerAddress", ""),
     EnergyAmount |-> JSONField(j, "energyAmount", 0),
     TransactionPrice |-> JSONField(j, "transactionPrice", 0),
     Timestamp |-> JSONField(j, "timestamp", ""),
     BuyerDeposit |-> JSONField(j, "buyerDeposit", 0),
     SellerDeposit |-> JSONField(j, "sellerDeposit", 0),
     TransactionState |-> JSONField(j, "transactionState", ""),
     BuyerSignature |-> JSONField(j, "buyerSignature", ""),
     SellerSignature |-> JSONField(j, "sellerSignature", "")]

\* json.Unmarshal into a Reputation.
UnmarshalReputation(j) ==
    [ParticipantAddress |-> JSONField(j, "participantAddress", ""),
     Score |-> JSONField(j, "score", 0)]

(* ------------------------------ the stub ------------------------------- *)

\* ctx.GetStub().GetState(key): (nil, err) on failure, (nil, nil) when absent.
GetState(st, key, failed) ==
    IF failed THEN [value |-> Nil, err |-> ErrStore]
    ELSE IF key \in DOMAIN st THEN [value |-> st[key], err |-> NoErr]
    ELSE [value |-> Nil, err |-> NoErr]

\* PutState that replaces the whole world state by the one key.
PutStateClobber(st, key, value, failed) ==
    IF failed THEN [store |-> st, err |-> ErrStore]
    ELSE [store |-> (key :> value), err |-> NoErr]

\* ctx.GetStub().PutState(key, value).
PutState(st, key, value, failed) ==
    IF failed THEN [store |-> st, err |-> ErrStore]
    ELSE [store |-> (key :> value) @@ st, err |-> NoErr]

\* Result of a contract function: returned value, returned error, the world
\* state it leaves and the store calls it issued, in order.
Result(ret, err, st, calls) == [ret |-> ret, err |-> err, store |-> st, calls |-> calls]

(* ------------------------- reputation methods -------------------------- *)

\* ReadReputationScore that reports a missing record as an error.
ReadReputationScoreNotFound(st, participantAddress, failAt, n) ==
    LET g == GetState(st, participantAddress, failAt = n)
        calls == << <<"get", participantAddress>> >>
    IN IF g.value = Nil \/ g.err # NoErr
       THEN Result(Reputation("", 0), ErrNotExist, st, calls)
       ELSE Result(UnmarshalReputation(g.value), NoErr, st, calls)

\* ReadReputationScore that saves the default record it hands out.
ReadReputationScorePersistsDefault(st, participantAddress, failAt, n) ==
    LET g == GetState(st, participantAddress, failAt = n)
        calls == << <<"get", participantAddress>> >>
        def == Reputation(participantAddress, DefaultScore)
    IN IF g.value = Nil \/ g.err # NoErr
       THEN Result(def, NoErr, (participantAddress :> MarshalReputation(def)) @@ st, calls)
       ELSE Result(UnmarshalReputation(g.value), NoErr, st, calls)

\* n is the ordinal of this function's GetState call within the invocation.
ReadReputationScore(st, participantAddress, failAt, n) ==
    LET g == GetState(st, participantAddress, failAt = n)
        calls == << <<"get", participantAddress>> >>
    IN IF g.value = Nil \/ g.err # NoErr
       THEN Result(Reputation(participantAddress, DefaultScore), NoErr, st, calls)
       ELSE Result(UnmarshalReputation(g.value), NoErr, st, calls)

\* CheckReputationPenalty that penalises the threshold score itself.
CheckReputationPenaltyInclusive(st, participantAddress, failAt, n) ==
    LET r == ReadReputationScore(st, participantAddress, failAt, n)
    IN Result([bool |-> r.ret.Score <= ReputationPenaltyThreshold], r.err, st, r.calls)

CheckReputationPenalty(st, participantAddress, failAt, n) ==
    LET r == ReadReputationScore(st, participantAddress, failAt, n)
    IN Result([bool |-> r.ret.Score < ReputationPenaltyThreshold], r.err, st, r.calls)

\* UpdateReputationScore without the upper clamp.
UpdateReputationScoreNoUpperClamp(st, participantAddress, delta, failAt) ==
    LET r == ReadReputationScore(st, participantAddress, failAt, 1)
        sum == r.ret.Score + delta
        score == IF sum < MinScore THEN MinScore ELSE sum
        rep == Reputation(r.ret.ParticipantAddress, score)
        p == PutState(st, participantAddress, MarshalReputation(rep), failAt = 2)
    IN IF r.err # NoErr
       THEN Result(Nil, r.err, st, r.calls)
       ELSE Result(Nil, p.err, p.store, r.calls \o << <<"put", participantAddress>> >>)

\* UpdateReputationScore that reads the record back after writing it.
UpdateReputationScoreReadBack(st, participantAddress, delta, failAt) ==
    LET r == ReadReputationScore(st, participantAddress, failAt, 1)
        sum == r.ret.Score + delta
        score == IF sum > MaxScore THEN MaxScore
                 ELSE IF sum < MinScore THEN MinScore ELSE sum
        rep == Reputation(r.ret.ParticipantAddress, score)
        p == PutState(st, participantAddress, MarshalReputation(rep), failAt = 2)
    IN IF r.err # NoErr
       THEN Result(Nil, r.err, st, r.calls)
       ELSE Result(Nil, p.err, p.store,
                   r.calls \o << <<"put", participantAddress>>,
                                  <<"get", participantAddress>> >>)

UpdateReputationScore(st, participantAddress, delta, failAt) ==
    LET r == ReadReputationScore(st, participantAddress, failAt, 1)
        sum == r.ret.Score + delta
        score == IF sum > MaxScore THEN MaxScore
                 ELSE IF sum < MinScore THEN MinScore ELSE sum
        rep == Reputation(r.ret.ParticipantAddress, score)
        p == PutState(st, participantAddress, MarshalReputation(rep), failAt = 2)
    IN IF r.err # NoErr
       THEN Result(Nil, r.err, st, r.calls)
       ELSE Result(Nil, p.err, p.store, r.calls \o << <<"put", participantAddress>> >>)

(* --------------------------- asset methods ----------------------------- *)

\* ReadEnergyAsset that only tests the error and decodes a missing record.
ReadEnergyAssetNoNilCheck(st, tokenID, failAt, n) ==
    LET g == GetState(st, tokenID, failAt = n)
        calls == << <<"get", tokenID>> >>
    IN IF g.err # NoErr
       THEN Result(Nil, ErrNotExist, st, calls)
       ELSE Result(UnmarshalEnergyAsset(g.value), NoErr, st, calls)

ReadEnergyAsset(st, tokenID, failAt, n) ==
    LET g == GetState(st, tokenID, failAt = n)
        calls == << <<"get", tokenID>> >>
    IN IF g.err # NoErr \/ g.value = Nil
       THEN Result(Nil, ErrNotExist, st, calls)
       ELSE Result(UnmarshalEnergyAsset(g.value), NoErr, st, calls)

\* EnergyAssetExists that reports every key as free.
EnergyAssetExistsNever(st, tokenID, failAt, n) ==
    LET g == GetState(st, tokenID, failAt = n)
    IN Result([bool |-> FALSE], g.err, st, << <<"get", tokenID>> >>)

EnergyAssetExists(st, tokenID, failAt, n) ==
    LET g == GetState(st, tokenID, failAt = n)
    IN Result([bool |-> g.value # Nil], g.err, st, << <<"get", tokenID>> >>)

\* CreateEnergyAsset without the uniqueness check.
CreateEnergyAssetNoExistsCheck(st, tokenID, buyerAddress, sellerAddress, in, failAt) ==
    LET b == CheckReputationPenalty(st, buyerAddress, failAt, 1)
        s == CheckReputationPenalty(st, sellerAddress, failAt, 2)
        asset == EnergyAsset(tokenID, buyerAddress, sellerAddress, in, "CREATED", "", "")
        p == PutState(st, tokenID, MarshalEnergyAsset(asset), failAt = 3)
    IN IF b.ret.bool \/ b.err # NoErr
       THEN Result(Nil, ErrBuyerReputation, st, b.calls)
       ELSE IF s.ret.bool \/ s.err # NoErr
       THEN Result(Nil, ErrSellerReputation, st, b.calls \o s.calls)
       ELSE Result(Nil, p.err, p.store, b.calls \o s.calls \o << <<"put", tokenID>> >>)

CreateEnergyAsset(st, tokenID, buyerAddress, sellerAddress, in, failAt) ==
    LET b == CheckReputationPenalty(st, buyerAddress, failAt, 1)
        s == CheckReputationPenalty(st, sellerAddress, failAt, 2)
        x == EnergyAssetExists(st, tokenID, failAt, 3)
        asset == EnergyAsset(tokenID, buyerAddress, sellerAddress, in, "CREATED", "", "")
        p == PutState(st, tokenID, MarshalEnergyAsset(asset), failAt = 4)
    IN IF b.ret.bool \/ b.err # NoErr
       THEN Result(Nil, ErrBuyerReputation, st, b.calls)
       ELSE IF s.ret.bool \/ s.err # NoErr
       THEN Result(Nil, ErrSellerReputation, st, b.calls \o s.calls)
       ELSE IF x.ret.bool \/ x.err # NoErr
       THEN Result(Nil, ErrAlreadyExists, st, b.calls \o s.calls \o x.calls)
       ELSE Result(Nil, p.err, p.store,
                   b.calls \o s.calls \o x.calls \o << <<"put", tokenID>> >>)

(* ------------------------------ InitLedger ----------------------------- *)

SampleInput ==
    [energyAmount |-> 10000, transactionPrice |-> 25,
     timestamp |-> "2025-05-03T10:00:00Z",
     buyerDeposit |-> 1000, sellerDeposit |-> 1000]

\* The PutState calls of InitLedger, in program order.
InitWrites ==
    << <<"buyer1", MarshalTokenAccount(TokenAccount("buyer1", 10000))>>,
       <<"seller1", MarshalTokenAccount(TokenAccount("seller1", 10000))>>,
       <<"energy1", MarshalEnergyAsset(
                      EnergyAsset("energy1", "buyer1", "seller1", SampleInput, "CREATED",
                                  "buyer_signature_example", "seller_signature_example"))>>,
       <<"buyer1", MarshalReputation(Reputation("buyer1", 80))>>,
       <<"seller1", MarshalReputation(Reputation("seller1", 85))>> >>

\* The writes from the i-th on; the first failing PutState ends the call.
RECURSIVE InitFrom(_, _, _, _)
InitFrom(st, i, failAt, calls) ==
    IF i > Len(InitWrites) THEN Result(Nil, NoErr, st, calls)
    ELSE LET w == InitWrites[i]
             p == PutState(st, w[1], w[2], failAt = i)
             cs == Append(calls, <<"put", w[1]>>)
         IN IF p.err # NoErr THEN Result(Nil, p.err, p.store, cs)
            ELSE InitFrom(p.store, i + 1, failAt, cs)

\* InitLedger that keeps none of its writes when one of them fails.
InitLedgerAllOrNothing(st, failAt) ==
    LET r == InitFrom(st, 1, failAt, <<>>)
    IN IF r.err # NoErr THEN Result(Nil, r.err, st, r.calls) ELSE r

InitLedger(st, failAt) == InitFrom(st, 1, failAt, <<>>)

(* ------------------------------ invocations ---------------------------- *)

\* The two concurrent invocations of SpecConc.
Procs == {1, 2}

\* An invocation that has not been submitted.
Idle == [pc |-> "idle"]

\* The invocation just completed: its name, arguments and failing store
\* call, the world state it started from and what it returned.
Invocation(op, args, failAt, r) ==
    [op |-> op, args |-> args, failAt |-> failAt, pre |-> store, err |-> r.err,
     ret |-> r.ret, calls |-> r.calls]

Init ==
    /\ store = <<>>
    /\ last = [op |-> "none", args |-> Nil, failAt |-> 0, pre |-> <<>>, err |-> NoErr,
               ret |-> Nil, calls |-> <<>>]
    /\ nops = 0
    /\ created = [k \in Keys |-> 0]
    /\ inflight = [i \in Procs |-> Idle]

InvokeInitLedger ==
    \E failAt \in FailAt(5) :
        LET r == InitLedger(store, failAt)
        IN /\ nops < MaxOps
           /\ nops' = nops + 1
           /\ store' = r.store
           /\ UNCHANGED <<created, inflight>>
           /\ last' = Invocation("InitLedger", Nil, failAt, r)

InvokeCreateEnergyAsset ==
    \E tokenID \in Keys, buyer \in Keys, seller \in Keys, in \in AssetInputs,
       failAt \in FailAt(4) :
        LET r == CreateEnergyAsset(store, tokenID, buyer, seller, in, failAt)
        IN /\ nops < MaxOps
           /\ nops' = nops + 1
           /\ store' = r.store
           /\ created' = IF r.err = NoErr
                         THEN [created EXCEPT ![tokenID] = @ + 1] ELSE created
           /\ UNCHANGED inflight
           /\ last' = Invocation("CreateEnergyAsset",
                                 [tokenID |-> tokenID, buyerAddress |-> buyer,
                                  sellerAddress |-> seller, in |-> in], failAt, r)

InvokeUpdateReputationScore ==
    \E p \in Keys, delta \in Deltas, failAt \in FailAt(2) :
        LET r == UpdateReputationScore(store, p, delta, failAt)
        IN /\ nops < MaxOps
           /\ nops' = nops + 1
           /\ store' = r.store
           /\ UNCHANGED <<created, inflight>>
           /\ last' = Invocation("UpdateReputationScore",
                                 [participantAddress |-> p, delta |-> delta], failAt, r)

InvokeReadReputationScore ==
    \E p \in Keys, failAt \in FailAt(1) :
        LET r == ReadReputationScore(store, p, failAt, 1)
        IN /\ nops < MaxOps
           /\ nops' = nops + 1
           /\ store' = r.store
           /\ UNCHANGED <<created, inflight>>
           /\ last' = Invocation("ReadReputationScore",
                                 [participantAddress |-> p], failAt, r)

InvokeCheckReputationPenalty ==
    \E p \in Keys, failAt \in FailAt(1) :
        LET r == CheckReputationPenalty(store, p, failAt, 1)
        IN /\ nops < MaxOps
           /\ nops' = nops + 1
           /\ store' = r.store
           /\ UNCHANGED <<created, inflight>>
           /\ last' = Invocation("CheckReputationPenalty",
                                 [participantAddress |-> p], failAt, r)

InvokeReadEnergyAsset ==
    \E tokenID \in Keys, failAt \in FailAt(1) :
        LET r == ReadEnergyAsset(store, tokenID, failAt, 1)
        IN /\ nops < MaxOps
           /\ nops' = nops + 1
           /\ store' = r.store
           /\ UNCHANGED <<created, inflight>>
           /\ last' = Invocation("ReadEnergyAsset", [tokenID |-> tokenID], failAt, r)

InvokeEnergyAssetExists ==
    \E tokenID \in Keys, failAt \in FailAt(1) :
        LET r == EnergyAssetExists(store, tokenID, failAt, 1)
        IN /\ nops < MaxOps
           /\ nops' = nops + 1
           /\ store' = r.store
           /\ UNCHANGED <<created, inflight>>
           /\ last' = Invocation("EnergyAssetExists", [tokenID |-> tokenID], failAt, r)

Next ==
    \/ InvokeInitLedger
    \/ InvokeCreateEnergyAsset
    \/ InvokeUpdateReputationScore
    \/ InvokeReadReputationScore
    \/ InvokeCheckReputationPenalty
    \/ InvokeReadEnergyAsset
    \/ InvokeEnergyAssetExists

Spec == Init /\ [][Next]_vars

(* ----------------------- concurrent invocations ------------------------ *)

\* CreateEnergyAsset of process i, one store call per step.  `serial` tells
\* whether the other invocation had returned when this one was submitted.
Other(i) == CHOOSE j \in Procs : j # i

InitConc ==
    /\ store = <<>>
    /\ last = [op |-> "none", args |-> Nil, failAt |-> 0, pre |-> <<>>, err |-> NoErr,
               ret |-> Nil, calls |-> <<>>]
    /\ nops = 0
    /\ created = [k \in Keys |-> 0]
    /\ inflight = [i \in Procs |-> Idle]

\* Process i returns err.
Return(i, err) ==
    inflight' = [inflight EXCEPT ![i] = [@ EXCEPT !.pc = "done", !.err = err]]

\* Process i moves on to the statement pc.
Goto(i, pc) == inflight' = [inflight EXCEPT ![i] = [@ EXCEPT !.pc = pc]]

ConcSubmit(i) ==
    /\ inflight[i].pc = "idle"
    /\ \E tokenID \in Keys, buyer \in Keys, seller \in Keys, in \in AssetInputs :
          inflight' = [inflight EXCEPT ![i] =
                          [pc |-> "buyer", tokenID |-> tokenID, buyerAddress |-> buyer,
                           sellerAddress |-> seller, in |-> in, err |-> NoErr,
                           serial |-> inflight[Other(i)].pc = "done"]]
    /\ UNCHANGED <<store, last, nops, created>>

ConcCheckBuyer(i) ==
    /\ inflight[i].pc = "buyer"
    /\ \E failAt \in FailAt(1) :
          LET b == CheckReputationPenalty(store, inflight[i].buyerAddress, failAt, 1)
          IN IF b.ret.bool \/ b.err # NoErr
             THEN Return(i, ErrBuyerReputation)
             ELSE Goto(i, "seller")
    /\ UNCHANGED <<store, last, nops, created>>

ConcCheckSeller(i) ==
    /\ inflight[i].pc = "seller"
    /\ \E failAt \in FailAt(1) :
          LET s == CheckReputationPenalty(store, inflight[i].sellerAddress, failAt, 1)
          IN IF s.ret.bool \/ s.err # NoErr
             THEN Return(i, ErrSellerReputation)
             ELSE Goto(i, "exists")
    /\ UNCHANGED <<store, last, nops, created>>

ConcExists(i) ==
    /\ inflight[i].pc = "exists"
    /\ \E failAt \in FailAt(1) :
          LET x == EnergyAssetExists(store, inflight[i].tokenID, failAt, 1)
          IN IF x.ret.bool \/ x.err # NoErr
             THEN Return(i, ErrAlreadyExists)
             ELSE Goto(i, "put")
    /\ UNCHANGED <<store, last, nops, created>>

ConcPut(i) ==
    /\ inflight[i].pc = "put"
    /\ \E failed \in BOOLEAN :
          LET a == inflight[i]
              asset == EnergyAsset(a.tokenID, a.buyerAddress, a.sellerAddress, a.in,
                                   "CREATED", "", "")
              p == PutState(store, a.tokenID, MarshalEnergyAsset(asset), failed)
          IN /\ store' = p.store
             /\ Return(i, p.err)
             /\ created' = IF p.err = NoErr
                           THEN [created EXCEPT ![a.tokenID] = @ + 1] ELSE created
    /\ UNCHANGED <<last, nops>>

NextConc ==
    \E i \in Procs :
        \/ ConcSubmit(i)
        \/ ConcCheckBuyer(i)
        \/ ConcCheckSeller(i)
        \/ ConcExists(i)
        \/ ConcPut(i)

SpecConc == InitConc /\ [][NextConc]_vars

(* ------------------------------ properties ----------------------------- *)

IsReputationRecord(j) == DOMAIN j = {"participantAddress", "score"}

IsAssetRecord(j) == "tokenID" \in DOMAIN j

\* Key p holds a reputation record whose score is below the threshold.
StoredScoreLow(st, p) ==
    p \in DOMAIN st /\ IsReputationRecord(st[p]) /\ st[p].score < 40

\* Key p holds no record, or a reputation record whose score is at least 40.
PassesReputation(st, p) ==
    p \notin DOMAIN st \/ (IsReputationRecord(st[p]) /\ st[p].score >= 40)

Clamp(x) == IF x > 100 THEN 100 ELSE IF x < 0 THEN 0 ELSE x

\* C1: every reputation record held in the store has a score between 0 and
\* 100, whatever InitLedger, UpdateReputationScore and CreateEnergyAsset
\* invocations led to the state.
C1_ScoreInRange ==
    \A k \in DOMAIN store :
        IsReputationRecord(store[k]) => (store[k].score >= 0 /\ store[k].score <= 100)

\* An update whose unclamped sum exceeds 100 or falls below 0 has been stored.
C1_Witness ==
    /\ last.op = "UpdateReputationScore"
    /\ last.err = NoErr
    /\ LET p == last.args.participantAddress
       IN /\ p \in DOMAIN last.pre
          /\ IsReputationRecord(last.pre[p])
          /\ last.pre[p].score + last.args.delta > 100
          /\ store[p].score = 100

\* C2 (as claimed): CreateEnergyAsset persists nothing when the score stored
\* for the buyer or for the seller is below 40, whatever the outcome of the
\* store reads the call performs.
C2_NoAssetWhenScoreLow ==
    (/\ last.op = "CreateEnergyAsset"
     /\ \/ StoredScoreLow(last.pre, last.args.buyerAddress)
        \/ StoredScoreLow(last.pre, last.args.sellerAddress))
    => store = last.pre

\* C3: when buyer and seller both pass the reputation check and tokenID
\* already holds a record, CreateEnergyAsset fails with "already exists" and
\* leaves the store, the record under tokenID included, as it was.
C3_NoOverwrite ==
    (/\ last.op = "CreateEnergyAsset"
     /\ PassesReputation(last.pre, last.args.buyerAddress)
     /\ PassesReputation(last.pre, last.args.sellerAddress)
     /\ last.args.tokenID \in DOMAIN last.pre)
    => (/\ last.err = ErrAlreadyExists
        /\ last.args.tokenID \in DOMAIN store
        /\ store[last.args.tokenID] = last.pre[last.args.tokenID]
        /\ store = last.pre)

\* A create on an occupied tokenID, with both participants passing and every
\* store call succeeding, was rejected.
C3_Witness ==
    /\ last.op = "CreateEnergyAsset"
    /\ last.failAt = 0
    /\ PassesReputation(last.pre, last.args.buyerAddress)
    /\ PassesReputation(last.pre, last.args.sellerAddress)
    /\ last.args.tokenID \in DOMAIN last.pre
    /\ IsAssetRecord(last.pre[last.args.tokenID])
    /\ last.err = ErrAlreadyExists

\* C4 (as claimed): the buyer check comes first, then the seller check, then
\* uniqueness.  A buyer whose stored score is below 40 is rejected with the
\* buyer error whatever the seller's score and whether or not tokenID is
\* taken; a seller below 40, the buyer passing, is rejected with the seller
\* error even if tokenID is taken.
C4_CheckOrder ==
    last.op = "CreateEnergyAsset" =>
        /\ StoredScoreLow(last.pre, last.args.buyerAddress)
              => last.err = ErrBuyerReputation
        /\ (/\ PassesReputation(last.pre, last.args.buyerAddress)
            /\ StoredScoreLow(last.pre, last.args.sellerAddress))
              => last.err = ErrSellerReputation

\* C5: after a successful CreateEnergyAsset the key exists and reading it
\* returns the eight arguments, state CREATED and empty signatures.
C5_RoundTrip ==
    (last.op = "CreateEnergyAsset" /\ last.err = NoErr) =>
        LET a == last.args
            x == EnergyAssetExists(store, a.tokenID, 0, 1)
            r == ReadEnergyAsset(store, a.tokenID, 0, 1)
        IN /\ x.err = NoErr /\ x.ret.bool
           /\ r.err = NoErr
           /\ r.ret = [TokenID |-> a.tokenID, BuyerAddress |-> a.buyerAddress,
                       SellerAddress |-> a.sellerAddress,
                       EnergyAmount |-> a.in.energyAmount,
                       TransactionPrice |-> a.in.transactionPrice,
                       Timestamp |-> a.in.timestamp,
                       BuyerDeposit |-> a.in.buyerDeposit,
                       SellerDeposit |-> a.in.sellerDeposit,
                       TransactionState |-> "CREATED",
                       BuyerSignature |-> "", SellerSignature |-> ""]

\* A create succeeded on a ledger that already held records.
C5_Witness ==
    /\ last.op = "CreateEnergyAsset"
    /\ last.err = NoErr
    /\ last.pre # <<>>
    /\ last.args.tokenID \in DOMAIN store

\* A record written by CreateEnergyAsset: state CREATED, no signature field.
IsCreatedAsset(j) ==
    /\ IsAssetRecord(j)
    /\ j.transactionState = "CREATED"
    /\ "buyerSignature" \notin DOMAIN j

\* C6 (as claimed): a record written by CreateEnergyAsset stays under its
\* key, unchanged, across every later invocation.
C6_AssetImmutable ==
    \A k \in DOMAIN last.pre :
        IsCreatedAsset(last.pre[k]) => (k \in DOMAIN store /\ store[k] = last.pre[k])

\* C7 (as claimed): a successful UpdateReputationScore(p, d) leaves under p
\* a reputation record whose score is min(100, max(0, s + d)), s being the
\* score stored under p, or 50 when p holds no record.
C7_ExactClamp ==
    (/\ last.op = "UpdateReputationScore"
     /\ last.err = NoErr
     /\ \/ last.args.participantAddress \notin DOMAIN last.pre
        \/ IsReputationRecord(last.pre[last.args.participantAddress]))
    => LET p == last.args.participantAddress
           s == IF p \in DOMAIN last.pre THEN last.pre[p].score ELSE 50
       IN /\ p \in DOMAIN store
          /\ IsReputationRecord(store[p])
          /\ store[p].score = Clamp(s + last.args.delta)

\* C8: reading the reputation of a key that holds nothing returns the
\* participant with score 50 and no error, whether or not the store read
\* fails.
C8_DefaultScore ==
    /\ \A p \in Keys \ DOMAIN store : \A f \in FailAt(1) :
          LET r == ReadReputationScore(store, p, f, 1)
          IN r.err = NoErr /\ r.ret = [ParticipantAddress |-> p, Score |-> 50]
    /\ (/\ last.op = "ReadReputationScore"
        /\ last.args.participantAddress \notin DOMAIN last.pre)
       => (/\ last.err = NoErr
           /\ last.ret = [ParticipantAddress |-> last.args.participantAddress,
                          Score |-> 50])

\* ReadReputationScore ran on a key holding nothing while another key held a
\* record.
C8_Witness ==
    /\ last.op = "ReadReputationScore"
    /\ last.args.participantAddress \notin DOMAIN last.pre
    /\ last.pre # <<>>
    /\ last.ret.Score = 50

\* C9: CheckReputationPenalty(p) is true exactly when the score
\* ReadReputationScore(p) yields is below 40: a stored 40 and a missing
\* record are not penalised, a stored score below 40 that is read is, and
\* the store is left as it was.
C9_PenaltyIffBelow ==
    last.op = "CheckReputationPenalty" =>
        LET p == last.args.participantAddress
            r == ReadReputationScore(last.pre, p, last.failAt, 1)
            isRep == p \in DOMAIN last.pre /\ IsReputationRecord(last.pre[p])
        IN /\ last.ret.bool = (r.ret.Score < 40)
           /\ last.err = r.err
           /\ p \notin DOMAIN last.pre => ~last.ret.bool
           /\ (isRep /\ last.pre[p].score = 40) => ~last.ret.bool
           /\ (isRep /\ last.failAt = 0) => (last.ret.bool <=> last.pre[p].score < 40)
           /\ store = last.pre

\* CheckReputationPenalty ran on a participant whose stored score is 40.
C9_Witness ==
    /\ last.op = "CheckReputationPenalty"
    /\ last.failAt = 0
    /\ last.args.participantAddress \in DOMAIN last.pre
    /\ IsReputationRecord(last.pre[last.args.participantAddress])
    /\ last.pre[last.args.participantAddress].score = 40
    /\ ~last.ret.bool

\* C10: ReadEnergyAsset on a key that holds no record fails with "does not
\* exist" and returns no asset.
C10_ReadMissing ==
    /\ \A k \in Keys \ DOMAIN store : \A f \in FailAt(1) :
          LET r == ReadEnergyAsset(store, k, f, 1)
          IN r.err = ErrNotExist /\ r.ret = Nil
    /\ (last.op = "ReadEnergyAsset" /\ last.args.tokenID \notin DOMAIN last.pre)
       => (last.err = ErrNotExist /\ last.ret = Nil)

\* ReadEnergyAsset ran on a free key of a ledger holding other records.
C10_Witness ==
    /\ last.op = "ReadEnergyAsset"
    /\ last.failAt = 0
    /\ last.args.tokenID \notin DOMAIN last.pre
    /\ last.pre # <<>>
    /\ last.err = ErrNotExist

\* C11 (as claimed): a failing store read makes ReadReputationScore fail
\* with the store's error instead of handing out a reputation, and
\* CheckReputationPenalty and UpdateReputationScore pass that failure on
\* (the update writing nothing).
C11_ReadFailureSurfaces ==
    (/\ last.op \in {"ReadReputationScore", "CheckReputationPenalty",
                     "UpdateReputationScore"}
     /\ last.failAt = 1)
    => (last.err = ErrStore /\ store = last.pre)

\* C12 (as claimed): an error names its cause.  "already exists" only for an
\* occupied tokenID, "reputation too low" only for a participant whose score
\* is below 40, "does not exist" only for a free key, and a failing store
\* call is returned as the store's error.
C12_ErrorMatchesCause ==
    /\ last.op = "CreateEnergyAsset" =>
          /\ last.err = ErrAlreadyExists => last.args.tokenID \in DOMAIN last.pre
          /\ last.err = ErrBuyerReputation
                => ~PassesReputation(last.pre, last.args.buyerAddress)
          /\ last.err = ErrSellerReputation
                => ~PassesReputation(last.pre, last.args.sellerAddress)
    /\ last.op = "ReadEnergyAsset" =>
          (last.err = ErrNotExist => last.args.tokenID \notin DOMAIN last.pre)
    /\ (/\ last.op \in {"CreateEnergyAsset", "ReadEnergyAsset", "EnergyAssetExists"}
        /\ last.failAt # 0
        /\ last.failAt <= Len(last.calls))
       => last.err = ErrStore

ReadOps ==
    {"ReadEnergyAsset", "EnergyAssetExists", "ReadReputationScore",
     "CheckReputationPenalty"}

\* C13: CreateEnergyAsset and UpdateReputationScore leave the store as it
\* was when they return an error, and the four read operations always do;
\* reading an unknown participant does not save the default record.
C13_StoreUnchanged ==
    /\ (last.op \in {"CreateEnergyAsset", "UpdateReputationScore"} /\ last.err # NoErr)
          => store = last.pre
    /\ last.op \in ReadOps => store = last.pre
    /\ (/\ last.op = "ReadReputationScore"
        /\ last.args.participantAddress \notin DOMAIN last.pre)
          => last.args.participantAddress \notin DOMAIN store

\* A create whose PutState failed returned the error on a ledger holding
\* other records, which it left as they were.
C13_Witness ==
    /\ last.op = "CreateEnergyAsset"
    /\ last.failAt = 4
    /\ last.err = ErrStore
    /\ last.pre # <<>>
    /\ store = last.pre

\* Number of PutState calls among the store calls cs.
Puts(cs) == Cardinality({ i \in 1..Len(cs) : cs[i][1] = "put" })

\* C14: apart from InitLedger, an invocation issues its reads first and then
\* at most one write: no call follows a write, a successful
\* CreateEnergyAsset or UpdateReputationScore issued exactly one write, and
\* the read operations issue none.
C14_ReadsThenOneWrite ==
    last.op \notin {"none", "InitLedger"} =>
        /\ \A i \in 1..Len(last.calls) : last.calls[i][1] = "put" => i = Len(last.calls)
        /\ Puts(last.calls) <= 1
        /\ (last.op \in {"CreateEnergyAsset", "UpdateReputationScore"} /\ last.err = NoErr)
              => Puts(last.calls) = 1
        /\ last.op \in ReadOps => Puts(last.calls) = 0

\* A create succeeded after its three reads and one write.
C14_Witness ==
    /\ last.op = "CreateEnergyAsset"
    /\ last.err = NoErr
    /\ Len(last.calls) = 4
    /\ last.calls[4] = <<"put", last.args.tokenID>>
    /\ last.pre # <<>>

\* The keys other than k hold in st2 what they hold in st1.
SameElsewhere(st1, st2, k) ==
    /\ DOMAIN st1 \ {k} = DOMAIN st2 \ {k}
    /\ \A j \in DOMAIN st1 \ {k} : st2[j] = st1[j]

\* C15: a successful UpdateReputationScore(p, d) changes the value under p
\* only and a successful CreateEnergyAsset(tokenID, ...) the value under
\* tokenID only.  Followed by a second update or create on another key,
\* neither reading the other's key, the two reach the same store and the
\* same results in either order.
C15_IndependentKeys ==
    /\ (last.op = "UpdateReputationScore" /\ last.err = NoErr) =>
          LET p == last.args.participantAddress
              d == last.args.delta
          IN /\ SameElsewhere(last.pre, store, p)
             /\ \A q \in Keys \ {p} : \A e \in Deltas :
                   LET ba == UpdateReputationScore(store, q, e, 0)
                       b == UpdateReputationScore(last.pre, q, e, 0)
                       ab == UpdateReputationScore(b.store, p, d, last.failAt)
                   IN ba.err = b.err /\ ab.err = NoErr /\ ab.store = ba.store
             /\ \A t \in Keys \ {p} : \A bu \in Keys \ {p} : \A se \in Keys \ {p} :
                \A in \in AssetInputs :
                   LET ba == CreateEnergyAsset(store, t, bu, se, in, 0)
                       b == CreateEnergyAsset(last.pre, t, bu, se, in, 0)
                       ab == UpdateReputationScore(b.store, p, d, last.failAt)
                   IN ba.err = b.err /\ ab.err = NoErr /\ ab.store = ba.store
    /\ (last.op = "CreateEnergyAsset" /\ last.err = NoErr) =>
          LET a == last.args
          IN /\ SameElsewhere(last.pre, store, a.tokenID)
             /\ \A q \in Keys \ {a.tokenID, a.buyerAddress, a.sellerAddress} :
                \A e \in Deltas :
                   LET ba == UpdateReputationScore(store, q, e, 0)
                       b == UpdateReputationScore(last.pre, q, e, 0)
                       ab == CreateEnergyAsset(b.store, a.tokenID, a.buyerAddress,
                                               a.sellerAddress, a.in, last.failAt)
                   IN ba.err = b.err /\ ab.err = NoErr /\ ab.store = ba.store
             /\ \A t \in Keys \ {a.tokenID, a.buyerAddress, a.sellerAddress} :
                \A bu \in Keys \ {a.tokenID} : \A se \in Keys \ {a.tokenID} :
                \A in \in AssetInputs :
                   LET ba == CreateEnergyAsset(store, t, bu, se, in, 0)
                       b == CreateEnergyAsset(last.pre, t, bu, se, in, 0)
                       ab == CreateEnergyAsset(b.store, a.tokenID, a.buyerAddress,
                                               a.sellerAddress, a.in, last.failAt)
                   IN ba.err = b.err /\ ab.err = NoErr /\ ab.store = ba.store

\* An asset was created on a ledger holding a record under another key, and
\* a create on a third key, reading neither, succeeds after it.
C15_Witness ==
    /\ last.op = "CreateEnergyAsset"
    /\ last.err = NoErr
    /\ DOMAIN last.pre \ {last.args.tokenID} # {}
    /\ \E t \in Keys \ {last.args.tokenID, last.args.buyerAddress,
                        last.args.sellerAddress} :
       \E bu \in Keys \ {last.args.tokenID} : \E in \in AssetInputs :
          CreateEnergyAsset(store, t, bu, bu, in, 0).err = NoErr

\* Some key of st holds the record j.
Holds(st, j) == \E k \in DOMAIN st : st[k] = j

\* C17 (as claimed): after a successful InitLedger on the empty ledger the
\* store holds the accounts buyer1 and seller1 with balance 100.00, the asset
\* energy1 in state CREATED and the reputations 80 of buyer1 and 85 of
\* seller1.
C17_AllSeeded ==
    (last.op = "InitLedger" /\ last.err = NoErr /\ last.pre = <<>>) =>
        /\ Holds(store, [accountID |-> "buyer1", balance |-> 10000])
        /\ Holds(store, [accountID |-> "seller1", balance |-> 10000])
        /\ \E k \in DOMAIN store :
              /\ IsAssetRecord(store[k])
              /\ store[k].tokenID = "energy1"
              /\ store[k].transactionState = "CREATED"
        /\ Holds(store, [participantAddress |-> "buyer1", score |-> 80])
        /\ Holds(store, [participantAddress |-> "seller1", score |-> 85])

\* The five writes of InitLedger, in order, written out.
SeedWrites ==
    << <<"buyer1", [accountID |-> "buyer1", balance |-> 10000]>>,
       <<"seller1", [accountID |-> "seller1", balance |-> 10000]>>,
       <<"energy1", [tokenID |-> "energy1", buyerAddress |-> "buyer1",
                     sellerAddress |-> "seller1", energyAmount |-> 10000,
                     transactionPrice |-> 25, timestamp |-> "2025-05-03T10:00:00Z",
                     buyerDeposit |-> 1000, sellerDeposit |-> 1000,
                     transactionState |-> "CREATED",
                     buyerSignature |-> "buyer_signature_example",
                     sellerSignature |-> "seller_signature_example"]>>,
       <<"buyer1", [participantAddress |-> "buyer1", score |-> 80]>>,
       <<"seller1", [participantAddress |-> "seller1", score |-> 85]>> >>

\* C18: when its i-th write fails InitLedger returns that error at once and
\* undoes nothing: each key holds the last of the i-1 earlier writes to it,
\* and what it held before when none of them wrote it.
C18_PartialSeed ==
    (last.op = "InitLedger" /\ last.failAt # 0) =>
        LET i == last.failAt
            before(k) == { j \in 1..(i - 1) : SeedWrites[j][1] = k }
            latest(k) == CHOOSE j \in before(k) : \A h \in before(k) : h <= j
        IN /\ last.err = ErrStore
           /\ Len(last.calls) = i
           /\ \A k \in Keys :
                 IF before(k) # {}
                 THEN k \in DOMAIN store /\ store[k] = SeedWrites[latest(k)][2]
                 ELSE /\ (k \in DOMAIN store <=> k \in DOMAIN last.pre)
                      /\ (k \in DOMAIN store => store[k] = last.pre[k])

\* InitLedger failed on the asset write of an empty ledger: the two accounts
\* are stored, the asset and the reputations are not.
C18_Witness ==
    /\ last.op = "InitLedger"
    /\ last.failAt = 3
    /\ last.pre = <<>>
    /\ last.err = ErrStore
    /\ DOMAIN store = {"buyer1", "seller1"}
    /\ store["buyer1"] = [accountID |-> "buyer1", balance |-> 10000]

\* C20: a penalty can be lifted.  Where p held a score below 40, a
\* successful UpdateReputationScore(p, d) with d >= 40 leaves p unpenalised,
\* and CreateEnergyAsset with p as buyer or as seller, an unpenalised
\* counterparty and a free tokenID then succeeds.
C20_PenaltyLifted ==
    (/\ last.op = "UpdateReputationScore"
     /\ last.err = NoErr
     /\ last.args.delta >= 40
     /\ last.args.participantAddress \in DOMAIN last.pre
     /\ JSONField(last.pre[last.args.participantAddress], "score", 0) < 40) =>
        LET p == last.args.participantAddress
        IN /\ \A g \in FailAt(1) : ~CheckReputationPenalty(store, p, g, 1).ret.bool
           /\ \A q \in Keys : \A t \in Keys \ DOMAIN store : \A in \in AssetInputs :
                 ~CheckReputationPenalty(store, q, 0, 1).ret.bool =>
                    /\ CreateEnergyAsset(store, t, p, q, in, 0).err = NoErr
                    /\ CreateEnergyAsset(store, t, q, p, in, 0).err = NoErr
                    /\ t \in DOMAIN CreateEnergyAsset(store, t, p, q, in, 0).store

\* A participant stored at score 0 was raised by exactly 40, and a free
\* tokenID is left to trade on.
C20_Witness ==
    /\ last.op = "UpdateReputationScore"
    /\ last.err = NoErr
    /\ last.args.delta = 40
    /\ StoredScoreLow(last.pre, last.args.participantAddress)
    /\ store[last.args.participantAddress].score = 40
    /\ Keys \ DOMAIN store # {}

BothReturnedSameToken ==
    /\ \A i \in Procs : inflight[i].pc = "done"
    /\ inflight[1].tokenID = inflight[2].tokenID
    /\ <<inflight[1].buyerAddress, inflight[1].sellerAddress>>
          # <<inflight[2].buyerAddress, inflight[2].sellerAddress>>

\* The record process i writes.
RecordOf(i) ==
    [tokenID |-> inflight[i].tokenID, buyerAddress |-> inflight[i].buyerAddress,
     sellerAddress |-> inflight[i].sellerAddress,
     energyAmount |-> inflight[i].in.energyAmount,
     transactionPrice |-> inflight[i].in.transactionPrice,
     timestamp |-> inflight[i].in.timestamp,
     buyerDeposit |-> inflight[i].in.buyerDeposit,
     sellerDeposit |-> inflight[i].in.sellerDeposit,
     transactionState |-> "CREATED"]

\* C16 (as claimed): of two concurrent CreateEnergyAsset invocations on the
\* same free tokenID with different contents, whose store calls interleave,
\* at most one succeeds, and the record stored is the successful one's.
C16_OneCreateWins ==
    BothReturnedSameToken =>
        /\ ~(inflight[1].err = NoErr /\ inflight[2].err = NoErr)
        /\ \A i \in Procs :
              inflight[i].err = NoErr => store[inflight[i].tokenID] = RecordOf(i)

\* C16 (amended): when one of the two invocations is submitted after the
\* other has returned, at most one succeeds, and the record stored is the
\* successful one's.
C16_SerialCreateWins ==
    (BothReturnedSameToken /\ \E i \in Procs : inflight[i].serial) =>
        /\ ~(inflight[1].err = NoErr /\ inflight[2].err = NoErr)
        /\ \A i \in Procs :
              inflight[i].err = NoErr => store[inflight[i].tokenID] = RecordOf(i)

\* The second invocation, submitted after the first returned nil, was turned
\* down as a duplicate.
C16_Witness ==
    /\ BothReturnedSameToken
    /\ inflight[2].serial
    /\ inflight[1].err = NoErr
    /\ inflight[2].err = ErrAlreadyExists
    /\ store[inflight[1].tokenID] = RecordOf(1)

====
